---------------------------- MODULE Spec2Model ----------------------------
(***************************************************************************)
(* A model of go-mego/binding (src/binding.go): Bind / BindToPtr populate  *)
(* a struct from a map[string][]string.                                    *)
(*                                                                         *)
(* Representation.  A Go string is a sequence of one-character strings.    *)
(* A map[string][]string is a function from a finite set of such keys to   *)
(* sequences of strings.  A struct type is a sequence of field             *)
(* descriptors, a struct value the sequence of its field values.  A        *)
(* pointer value is <<>> (nil) or <<pointee>>; a slice value is the        *)
(* sequence of its elements (BindToPtr never builds an empty non-nil       *)
(* slice, so nil and <<>> coincide).  Integer kinds are modelled at the    *)
(* bit widths 8 and 16; float kinds are left out.                          *)
(***************************************************************************)
EXTENDS Integers, Sequences, FiniteSets, TLC

---------------------------------------------------------------------------
(* Bounds *)

\* longest value string the conversion specification draws
MaxLen == 3
\* most values a keymap carries, all keys together
MaxVals == 2
\* most entries of a keymap
MaxKeys == 2

---------------------------------------------------------------------------
(* strings *)

\* v := ...; F(v): a value computed once and used under a name
With(v, F(_)) == F(v)

\* the upper-case characters of the modelled alphabet with their lower case
UpperToLower == [A |-> "a", B |-> "b", C |-> "c", T |-> "t", F |-> "f"]

ToLowerChar(c) == IF c \in DOMAIN UpperToLower THEN UpperToLower[c] ELSE c

\* strings.ToLower
RECURSIVE ToLower(_)
ToLower(s) ==
    IF s = <<>> THEN <<>> ELSE <<ToLowerChar(Head(s))>> \o ToLower(Tail(s))

\* strings.Replace(s, old, "", -1) for a one-character old
RECURSIVE Remove(_, _)
Remove(s, old) ==
    IF s = <<>> THEN <<>>
    ELSE IF Head(s) = old THEN Remove(Tail(s), old)
    ELSE <<Head(s)>> \o Remove(Tail(s), old)

\* the key rewriting of one iteration of convertKeys
NormalizeKey(k) == ToLower(Remove(Remove(k, "_"), "-"))

\* convertKeys with the map iterated in the order ord (a sequence holding
\* every key of source once): dest[o] = v overwrites an earlier writer
RECURSIVE convertKeysFrom(_, _, _)
convertKeysFrom(source, ord, dest) ==
    IF ord = <<>> THEN dest
    ELSE LET k == Head(ord)
             o == NormalizeKey(k)
             d == [x \in (DOMAIN dest) \cup {o} |->
                      IF x = o THEN source[k] ELSE dest[x]]
         IN  convertKeysFrom(source, Tail(ord), d)

EmptyMap == [x \in {} |-> <<>>]

convertKeys(source, ord) == convertKeysFrom(source, ord, EmptyMap)

\* the iteration orders `range source` may take: Go leaves the order of a
\* map iteration unspecified
RECURSIVE Orders(_)
Orders(S) ==
    IF S = {} THEN {<<>>}
    ELSE UNION {{<<k>> \o o : o \in Orders(S \ {k})} : k \in S}

\* some iteration order of S
AnyOrder(S) == CHOOSE o \in Orders(S) : TRUE

---------------------------------------------------------------------------
(* errors *)

NoErr == [kind |-> "nil", field |-> <<>>]
ErrNotStruct == [kind |-> "ErrNotStruct", field |-> <<>>]
ErrRequired(name) == [kind |-> "ErrRequired", field |-> name]
ErrUnknownType == [kind |-> "unknown type", field |-> <<>>]
\* *strconv.NumError: Err is ErrSyntax or ErrRange, Num the input
ErrSyntax(s) == [kind |-> "ErrSyntax", field |-> s]
ErrRange(s) == [kind |-> "ErrRange", field |-> s]
\* the error a BindUnmarshaler returns
ErrUnmarshal(s) == [kind |-> "UnmarshalParam", field |-> s]
\* runtime error: index out of range (the call does not return)
Panic == [kind |-> "panic: index out of range", field |-> <<>>]

---------------------------------------------------------------------------
(* strconv *)

DigitVal(c) ==
    CASE c = "0" -> 0 [] c = "1" -> 1 [] c = "2" -> 2 [] c = "3" -> 3
      [] c = "4" -> 4 [] c = "5" -> 5 [] c = "6" -> 6 [] c = "7" -> 7
      [] c = "8" -> 8 [] c = "9" -> 9 [] OTHER -> -1

Pow2(n) == 2 ^ n

\* the digit loop of strconv.ParseUint(s, 10, bitSize): a character that is
\* no digit is a syntax error, a value above 2^bitSize - 1 a range error
\* (the value returned with it is the largest one)
RECURSIVE parseDigits(_, _, _, _)
parseDigits(s, i, n, maxVal) ==
    IF i > Len(s) THEN [val |-> n, err |-> "nil"]
    ELSE LET d == DigitVal(s[i])
         IN  IF d < 0 THEN [val |-> 0, err |-> "ErrSyntax"]
             ELSE IF n * 10 + d > maxVal THEN [val |-> maxVal, err |-> "ErrRange"]
             ELSE parseDigits(s, i + 1, n * 10 + d, maxVal)

ParseUint(s, bitSize) ==
    IF s = <<>> THEN [val |-> 0, err |-> "ErrSyntax"]
    ELSE parseDigits(s, 1, 0, Pow2(bitSize) - 1)

\* strconv.ParseInt(s, 10, bitSize): an optional sign, then ParseUint of the
\* rest at the same width, then the check against the signed range
ParseInt(s, bitSize) ==
    IF s = <<>> THEN [val |-> 0, err |-> "ErrSyntax"]
    ELSE LET neg == Head(s) = "-"
             rest == IF Head(s) \in {"+", "-"} THEN Tail(s) ELSE s
             cutoff == Pow2(bitSize - 1)
         IN  With(ParseUint(rest, bitSize), LAMBDA un :
               IF un.err = "ErrSyntax" THEN [val |-> 0, err |-> "ErrSyntax"]
               ELSE IF un.err = "ErrRange" \/ (~neg /\ un.val >= cutoff)
                                           \/ (neg /\ un.val > cutoff)
                    THEN [val |-> IF neg THEN -cutoff ELSE cutoff - 1,
                          err |-> "ErrRange"]
               ELSE [val |-> IF neg THEN -un.val ELSE un.val, err |-> "nil"])

\* the literals strconv.ParseBool accepts
TrueLiterals ==
    {<<"1">>, <<"t">>, <<"T">>, <<"T", "R", "U", "E">>,
     <<"t", "r", "u", "e">>, <<"T", "r", "u", "e">>}
FalseLiterals ==
    {<<"0">>, <<"f">>, <<"F">>, <<"F", "A", "L", "S", "E">>,
     <<"f", "a", "l", "s", "e">>, <<"F", "a", "l", "s", "e">>}

ParseBool(s) ==
    IF s \in TrueLiterals THEN [val |-> TRUE, err |-> "nil"]
    ELSE IF s \in FalseLiterals THEN [val |-> FALSE, err |-> "nil"]
    ELSE [val |-> FALSE, err |-> "ErrSyntax"]

NumError(e, s) == IF e = "ErrRange" THEN ErrRange(s) ELSE ErrSyntax(s)

---------------------------------------------------------------------------
(* types and values *)

\* a type descriptor: its reflect.Kind, whether a pointer to it implements
\* BindUnmarshaler, and in sub the element type of a slice or pointer
\* (one entry) or the fields of a struct
Scalar(kind) == [kind |-> kind, custom |-> FALSE, sub |-> <<>>]
SliceOf(t) == [kind |-> "slice", custom |-> FALSE, sub |-> <<t>>]
PtrTo(t) == [kind |-> "ptr", custom |-> FALSE, sub |-> <<t>>]
Struct(fields) == [kind |-> "struct", custom |-> FALSE, sub |-> fields]
\* a named type with a method UnmarshalParam on its pointer
Unmarshaler(t) == [t EXCEPT !.custom = TRUE]

NoTags == [form |-> <<>>, json |-> <<>>]

\* a struct field: reflect.StructField (Name, Type, Tag) and whether the
\* reflect.Value of the field can be set (it is exported)
Field(name, type, tags, binding) ==
    [name |-> name, type |-> type, tags |-> tags, binding |-> binding,
     settable |-> TRUE]

IntKinds == {"int8", "int16"}
UintKinds == {"uint8", "uint16"}

\* the bitSize setWithProperType passes for a kind
BitSize(kind) == IF kind \in {"int8", "uint8"} THEN 8 ELSE 16

\* reflect.Zero
RECURSIVE Zero(_)
Zero(t) ==
    CASE t.kind \in IntKinds \cup UintKinds -> 0
      [] t.kind = "bool" -> FALSE
      [] t.kind = "struct" -> [i \in 1..Len(t.sub) |-> Zero(t.sub[i].type)]
      [] OTHER -> <<>>

isZeroOfUnderlyingType(t, v) == v = Zero(t)

---------------------------------------------------------------------------
(* conversion of one value *)

\* a BindUnmarshaler of the caller's: UnmarshalParam is called on a fresh
\* zero value; this one rejects "x" and stores every other parameter (in
\* the first field when the type is a struct)
UnmarshalParam(t, param) ==
    IF param = <<"x">> THEN [val |-> Zero(t), err |-> ErrUnmarshal(param)]
    ELSE [val |-> IF t.kind = "struct"
                  THEN [i \in 1..Len(t.sub) |->
                           IF i = 1 THEN param ELSE Zero(t.sub[i].type)]
                  ELSE param,
          err |-> NoErr]

\* the field is set to what the unmarshaler holds, whatever it returned
unmarshalFieldNonPtr(t, value, field) ==
    IF t.custom
    THEN With(UnmarshalParam(t, value), LAMBDA d :
           [ok |-> TRUE, err |-> d.err, val |-> d.val])
    ELSE [ok |-> FALSE, err |-> NoErr, val |-> field]

\* a nil pointer is set to a new zero value before anything is decoded
unmarshalFieldPtr(t, value, field) ==
    With(IF field = <<>> THEN <<Zero(t.sub[1])>> ELSE field, LAMBDA alloc :
      With(unmarshalFieldNonPtr(t.sub[1], value, alloc[1]), LAMBDA r :
        [ok |-> r.ok, err |-> r.err, val |-> <<r.val>>]))

unmarshalField(t, val, field) ==
    IF t.kind = "ptr" THEN unmarshalFieldPtr(t, val, field)
    ELSE unmarshalFieldNonPtr(t, val, field)

\* setIntField without the test of err: the field is set to whatever
\* ParseInt returned
setIntFieldUnchecked(value, bitSize, field) ==
    With(ParseInt(IF value = <<>> THEN <<"0">> ELSE value, bitSize), LAMBDA p :
      [val |-> p.val,
       err |-> IF p.err = "nil" THEN NoErr
               ELSE NumError(p.err, IF value = <<>> THEN <<"0">> ELSE value)])

\* the field is set only when the parse returned no error
setIntField(value, bitSize, field) ==
    With(ParseInt(IF value = <<>> THEN <<"0">> ELSE value, bitSize), LAMBDA p :
      IF p.err = "nil" THEN [val |-> p.val, err |-> NoErr]
      ELSE [val |-> field,
            err |-> NumError(p.err, IF value = <<>> THEN <<"0">> ELSE value)])

setUintField(value, bitSize, field) ==
    With(ParseUint(IF value = <<>> THEN <<"0">> ELSE value, bitSize), LAMBDA p :
      IF p.err = "nil" THEN [val |-> p.val, err |-> NoErr]
      ELSE [val |-> field,
            err |-> NumError(p.err, IF value = <<>> THEN <<"0">> ELSE value)])

setBoolField(value, field) ==
    With(ParseBool(IF value = <<>> THEN <<"f", "a", "l", "s", "e">>
                   ELSE value), LAMBDA p :
      IF p.err = "nil" THEN [val |-> p.val, err |-> NoErr]
      ELSE [val |-> field, err |-> ErrSyntax(value)])

RECURSIVE setWithProperType(_, _, _)
setWithProperType(t, val, structField) ==
    With(unmarshalField(t, val, structField), LAMBDA u :
      IF u.ok THEN [val |-> u.val, err |-> u.err]
      ELSE CASE t.kind = "ptr" ->
                  With(setWithProperType(t.sub[1], val, u.val[1]), LAMBDA r :
                    [val |-> <<r.val>>, err |-> r.err])
             [] t.kind \in IntKinds ->
                  setIntField(val, BitSize(t.kind), structField)
             [] t.kind \in UintKinds ->
                  setUintField(val, BitSize(t.kind), structField)
             [] t.kind = "bool" -> setBoolField(val, structField)
             [] t.kind = "string" -> [val |-> val, err |-> NoErr]
             [] OTHER -> [val |-> structField, err |-> ErrUnknownType])

---------------------------------------------------------------------------
(* BindToPtr *)

\* TagGet with the tag name fixed to "json", whatever the caller passed
TagGetJSON(f, tag) == f.tags["json"]

\* typeField.Tag.Get(tag)
TagGet(f, tag) == f.tags[tag]

\* the name the field is looked up by: its tag, else its lower-cased name
inputFieldNameOf(f, tag) ==
    IF TagGet(f, tag) = <<>> THEN ToLower(f.name) ELSE TagGet(f, tag)

\* the field is left out of the walk
skipped(f, tag) == ~f.settable \/ TagGet(f, tag) = <<"-">>

\* recursive with the test for a BindUnmarshaler turned around
recursiveOnlyUnmarshalers(f, tag) ==
    TagGet(f, tag) = <<>> /\ f.type.custom /\ f.type.kind = "struct"

\* an untagged struct field that is no BindUnmarshaler is bound recursively
recursive(f, tag) ==
    TagGet(f, tag) = <<>> /\ ~f.type.custom /\ f.type.kind = "struct"

\* setSlice writing the elements into the field itself: an error leaves the
\* elements converted so far
RECURSIVE setSliceInPlace(_, _, _, _, _)
setSliceInPlace(elem, inputValue, j, slice, structField) ==
    IF j > Len(inputValue) THEN [val |-> slice, err |-> NoErr]
    ELSE With(setWithProperType(elem, inputValue[j], Zero(elem)), LAMBDA r :
           IF r.err # NoErr THEN [val |-> slice, err |-> r.err]
           ELSE setSliceInPlace(elem, inputValue, j + 1, Append(slice, r.val),
                                structField))

\* the new slice: every element converted in turn into a zero slot, the first
\* error returned with the field as it was
RECURSIVE setSlice(_, _, _, _, _)
setSlice(elem, inputValue, j, slice, structField) ==
    IF j > Len(inputValue) THEN [val |-> slice, err |-> NoErr]
    ELSE With(setWithProperType(elem, inputValue[j], Zero(elem)), LAMBDA r :
           IF r.err # NoErr THEN [val |-> structField, err |-> r.err]
           ELSE setSlice(elem, inputValue, j + 1, Append(slice, r.val),
                         structField))

\* the check of a field that was set through setWithProperType
checkRequired(f, val, inputFieldName) ==
    IF f.binding = "required" /\ isZeroOfUnderlyingType(f.type, val)
    THEN ErrRequired(inputFieldName)
    ELSE NoErr

\* the conversion of a field the unmarshaler path did not handle
setField(f, inputValue, structField) ==
    IF f.type.kind = "slice" /\ Len(inputValue) > 0
    THEN setSlice(f.type.sub[1], inputValue, 1, <<>>, structField)
    ELSE setWithProperType(f.type, inputValue[1], structField)

\* a field whose name is a key of data: inputValue[0] is read first
bindValue(f, structField, inputValue, inputFieldName) ==
    IF Len(inputValue) = 0 THEN [val |-> structField, err |-> Panic]
    ELSE With(unmarshalField(f.type, inputValue[1], structField), LAMBDA u :
           IF u.ok THEN [val |-> u.val, err |-> u.err]
           ELSE With(setField(f, inputValue, u.val), LAMBDA s :
                  IF s.err # NoErr THEN s
                  ELSE [val |-> s.val,
                        err |-> checkRequired(f, s.val, inputFieldName)]))

RECURSIVE BindToPtr(_, _, _, _, _)
RECURSIVE bindFields(_, _, _, _, _)

\* one iteration of the loop over the fields
bindField(f, structField, data, tag) ==
    IF skipped(f, tag) THEN [val |-> structField, err |-> NoErr]
    ELSE IF recursive(f, tag)
    THEN With(BindToPtr(f.type, structField, data, tag,
                        AnyOrder(DOMAIN data)), LAMBDA r :
           [val |-> r.inst, err |-> r.err])
    ELSE IF inputFieldNameOf(f, tag) \notin DOMAIN data
    THEN [val |-> structField, err |-> NoErr]
    ELSE bindValue(f, structField, data[inputFieldNameOf(f, tag)],
                   inputFieldNameOf(f, tag))

\* the loop from field i on: the first error ends it
bindFields(fields, val, data, tag, i) ==
    IF i > Len(fields) THEN [inst |-> val, err |-> NoErr]
    ELSE With(bindField(fields[i], val[i], data, tag), LAMBDA r :
           IF r.err # NoErr
           THEN [inst |-> [val EXCEPT ![i] = r.val], err |-> r.err]
           ELSE bindFields(fields, [val EXCEPT ![i] = r.val], data, tag, i + 1))

\* BindToPtr on a pointer to val, a value of type typ; ord is the order in
\* which convertKeys happens to iterate over data
BindToPtr(typ, val, data, tag, ord) ==
    IF typ.kind # "struct" THEN [inst |-> val, err |-> ErrNotStruct]
    ELSE bindFields(typ.sub, val, convertKeys(data, ord), tag, 1)

\* Bind: a new zero value of the type is bound; nil is returned with an error
Bind(typ, data, tag, ord) ==
    With(BindToPtr(typ, Zero(typ), data, tag, ord), LAMBDA r :
      [ptr |-> IF r.err = NoErr THEN <<r.inst>> ELSE <<>>, err |-> r.err])

---------------------------------------------------------------------------
(* the inputs: target types, keymaps *)

Tags(form, json) == [form |-> form, json |-> json]

Unexported(f) == [f EXCEPT !.settable = FALSE]

\* type Code string, with func (c *Code) UnmarshalParam(string) error
Code == Unmarshaler(Scalar("string"))
\* type Stamp struct { Raw string }, with UnmarshalParam on *Stamp
Stamp == Unmarshaler(Struct(<<Field(<<"R", "a", "w">>, Scalar("string"), NoTags, "")>>))
\* type Leaf struct { Ab []uint8 }
Leaf == Struct(<<Field(<<"A", "b">>, SliceOf(Scalar("uint8")), NoTags, "")>>)
\* type Inner struct { C string `binding:"required"`; Deep Leaf }
Inner ==
    Struct(<<Field(<<"C">>, Scalar("string"), NoTags, "required"),
             Field(<<"D", "e", "e", "p">>, Leaf, NoTags, "")>>)

\* the target types Bind is called with
Targets ==
    << \* struct { Ab string `binding:"required"`; C int8 `binding:"required"` }
       Struct(<<Field(<<"A", "b">>, Scalar("string"), NoTags, "required"),
                Field(<<"C">>, Scalar("int8"), NoTags, "required")>>),
       \* struct { A_b string; AB uint8 }
       Struct(<<Field(<<"A", "_", "b">>, Scalar("string"), NoTags, ""),
                Field(<<"A", "B">>, Scalar("uint8"), NoTags, "")>>),
       \* struct { Ab string `form:"a_b" json:"ab"`; C bool `form:"c" json:"A-B"` }
       Struct(<<Field(<<"A", "b">>, Scalar("string"),
                      Tags(<<"a", "_", "b">>, <<"a", "b">>), ""),
                Field(<<"C">>, Scalar("bool"),
                      Tags(<<"c">>, <<"A", "-", "B">>), "")>>),
       \* struct { Ab string `form:"-" binding:"required"`;
       \*          C int8 `json:"-" binding:"required"` }
       Struct(<<Field(<<"A", "b">>, Scalar("string"),
                      Tags(<<"-">>, <<>>), "required"),
                Field(<<"C">>, Scalar("int8"),
                      Tags(<<>>, <<"-">>), "required")>>),
       \* struct { Ab int8; In Inner `binding:"required"` }
       Struct(<<Field(<<"A", "b">>, Scalar("int8"), NoTags, ""),
                Field(<<"I", "n">>, Inner, NoTags, "required")>>),
       \* struct { Ab []int8 `binding:"required"`; C *int8 `binding:"required"` }
       Struct(<<Field(<<"A", "b">>, SliceOf(Scalar("int8")), NoTags, "required"),
                Field(<<"C">>, PtrTo(Scalar("int8")), NoTags, "required")>>),
       \* struct { Ab Code `binding:"required"`; C *Code `binding:"required"` }
       Struct(<<Field(<<"A", "b">>, Code, NoTags, "required"),
                Field(<<"C">>, PtrTo(Code), NoTags, "required")>>),
       \* int8: no struct
       Scalar("int8"),
       \* struct { ab string; C Stamp }
       Struct(<<Unexported(Field(<<"a", "b">>, Scalar("string"), NoTags, "")),
                Field(<<"C">>, Stamp, NoTags, "")>>),
       \* struct { Ab []Code; C Leaf `form:"c"` }
       Struct(<<Field(<<"A", "b">>, SliceOf(Code), NoTags, ""),
                Field(<<"C">>, Leaf, Tags(<<"c">>, <<>>), "")>>) >>

\* the tag names NewForm / NewQuery and NewJSON pass
TagNames == {"form", "json"}

\* the keys and the values of a request
Keys == {<<"a", "b">>, <<"a", "_", "b">>, <<"A", "-", "B">>, <<"c">>, <<"-">>}
Values == {<<>>, <<"1">>, <<"x">>}

RECURSIVE SeqsUpTo(_, _)
SeqsUpTo(S, n) ==
    IF n = 0 THEN {<<>>}
    ELSE With(SeqsUpTo(S, n - 1), LAMBDA shorter :
           shorter \cup {Append(q, x) : q \in shorter, x \in S})

\* the map m with the entry k -> l added
WithEntry(m, k, l) ==
    [x \in (DOMAIN m) \cup {k} |-> IF x = k THEN l ELSE m[x]]

\* the maps whose keys are exactly K and which hold at most n values in all
RECURSIVE KeymapsOver(_, _)
KeymapsOver(K, n) ==
    IF K = {} THEN {EmptyMap}
    ELSE LET k == CHOOSE x \in K : TRUE
         IN  UNION {{WithEntry(m, k, l) : m \in KeymapsOver(K \ {k}, n - Len(l))} :
                    l \in SeqsUpTo(Values, n)}

\* the map[string][]string values of at most MaxKeys entries and MaxVals
\* values
Keymaps ==
    UNION {KeymapsOver(K, MaxVals) :
           K \in {K \in SUBSET Keys : Cardinality(K) <= MaxKeys}}

\* a value of the type that is nowhere zero: what a caller's struct may hold
\* before BindToPtr
RECURSIVE Prior(_)
Prior(t) ==
    CASE t.kind \in IntKinds \cup UintKinds -> 7
      [] t.kind = "bool" -> TRUE
      [] t.kind = "string" -> <<"p">>
      [] t.kind = "struct" -> [i \in 1..Len(t.sub) |-> Prior(t.sub[i].type)]
      [] OTHER -> <<Prior(t.sub[1])>>

---------------------------------------------------------------------------
(* the state machine *)

\* the characters of the strings a single conversion is tried on
ConvChars == {"0", "1", "2", "5", "6", "7", "8", "-", "+", "t"}
ConvStrings == SeqsUpTo(ConvChars, MaxLen)
ConvKinds == IntKinds \cup UintKinds \cup {"bool"}

\* struct { C kind }, or struct { C []kind } when inSlice
ConvTarget(kind, inSlice) ==
    Struct(<<Field(<<"C">>,
                   IF inSlice THEN SliceOf(Scalar(kind)) ELSE Scalar(kind),
                   NoTags, "")>>)

VARIABLES
    target,  \* the index in Targets of the type bound to
    tag,     \* the tag name of the calls
    data,    \* the request's keymap
    first,   \* what the first call of Bind returned
    second,  \* what the second call of Bind, with the same arguments, returned
    dest,    \* the caller's struct BindToPtr was called on, before and after
    conv     \* one string converted into a field or slice element of a kind

vars == <<target, tag, data, first, second, dest, conv>>

typ == Targets[target]

NotCalled == [called |-> FALSE]

Init ==
    /\ target \in 1..Len(Targets)
    /\ tag \in TagNames
    /\ data \in Keymaps
    /\ first = NotCalled
    /\ second = NotCalled
    /\ dest = NotCalled
    /\ conv = NotCalled

\* what a call of Bind(typ, data, tag) may return
BindResults ==
    {[called |-> TRUE, ptr |-> r.ptr, err |-> r.err] :
        r \in {Bind(typ, data, tag, ord) : ord \in Orders(DOMAIN data)}}

\* a handler calls Bind(dest, data, tag)
CallBind ==
    /\ ~first.called
    /\ first' \in BindResults
    /\ UNCHANGED <<target, tag, data, second, dest, conv>>

\* Bind is called again with the same arguments
CallBindAgain ==
    /\ first.called /\ ~second.called
    /\ second' \in BindResults
    /\ UNCHANGED <<target, tag, data, first, dest, conv>>

\* a caller calls BindToPtr(&v, data, tag) on a struct v of its own, new or
\* holding earlier values
CallBindToPtrOn(before) ==
    /\ ~dest.called
    /\ \E ord \in Orders(DOMAIN data) :
          With(BindToPtr(typ, before, data, tag, ord), LAMBDA r :
            dest' = [called |-> TRUE, before |-> before, after |-> r.inst,
                     err |-> r.err, keys |-> convertKeys(data, ord)])
    /\ UNCHANGED <<target, tag, data, first, second, conv>>

CallBindToPtrNew == CallBindToPtrOn(Zero(typ))

CallBindToPtrUsed == CallBindToPtrOn(Prior(typ))

Next == CallBindToPtrNew \/ CallBindToPtrUsed

\* BindToPtr on a struct of the caller's
Spec == Init /\ [][Next]_vars

NextBind == CallBind \/ CallBindAgain

\* Bind called twice with the same arguments
SpecBind == Init /\ [][NextBind]_vars

InitConv ==
    /\ target = 1
    /\ tag = "form"
    /\ data = EmptyMap
    /\ first = NotCalled
    /\ second = NotCalled
    /\ dest = NotCalled
    /\ conv \in [called : {FALSE}, kind : ConvKinds, s : ConvStrings]

\* BindToPtr of {"c": [s]} into a struct whose only field C is of the kind
\* (a slice of the kind when inSlice) and holds a value that is not zero
ConvertIn(inSlice) ==
    /\ ~conv.called
    /\ With(ConvTarget(conv.kind, inSlice), LAMBDA t :
         With(BindToPtr(t, Prior(t), [k \in {<<"c">>} |-> <<conv.s>>],
                        "form", <<<<"c">>>>), LAMBDA r :
           conv' = [called |-> TRUE, kind |-> conv.kind, s |-> conv.s,
                    inSlice |-> inSlice, before |-> Prior(t)[1],
                    after |-> r.inst[1], err |-> r.err]))
    /\ UNCHANGED <<target, tag, data, first, second, dest>>

ConvertField == ConvertIn(FALSE)

ConvertElement == ConvertIn(TRUE)

NextConv == ConvertField \/ ConvertElement

\* one string converted into one field
SpecConv == InitConv /\ [][NextConv]_vars

---------------------------------------------------------------------------
(* what the claims speak of *)

\* the fields of the target type
TopFields == IF typ.kind = "struct" THEN typ.sub ELSE <<>>

\* the walk of the call recorded in dest got as far as field i
Reached(i) ==
    bindFields(SubSeq(TopFields, 1, i - 1), SubSeq(dest.before, 1, i - 1),
               dest.keys, tag, 1).err = NoErr

\* what converting the values of one key into a field holding v gives
DecodeOf(f, inputValue, v) ==
    With(unmarshalField(f.type, inputValue[1], v), LAMBDA u :
      IF u.ok THEN [val |-> u.val, err |-> u.err]
      ELSE setField(f, inputValue, u.val))

\* k is the only key of the request with its normal form
OnlyKeyOfClass(k) ==
    \A k2 \in DOMAIN data : NormalizeKey(k2) = NormalizeKey(k) => k2 = k

\* the field is a BindUnmarshaler, or a pointer to one
IsUnmarshalerField(f) ==
    f.type.custom \/ (f.type.kind = "ptr" /\ f.type.sub[1].custom)

\* the sequence without its i-th element
Without(q, i) == SubSeq(q, 1, i - 1) \o SubSeq(q, i + 1, Len(q))

\* a field BindToPtr is to bind as a nested record
IsNested(f, t) ==
    f.settable /\ f.tags[t] = <<>> /\ ~f.type.custom /\ f.type.kind = "struct"

\* the fields with those of every nested record put in its place
RECURSIVE FlatFields(_, _)
FlatFields(fields, t) ==
    IF fields = <<>> THEN <<>>
    ELSE (IF IsNested(Head(fields), t)
          THEN FlatFields(Head(fields).type.sub, t)
          ELSE <<Head(fields)>>) \o FlatFields(Tail(fields), t)

\* the values of the fields, in the order of FlatFields
RECURSIVE FlatVals(_, _, _)
FlatVals(fields, vals, t) ==
    IF fields = <<>> THEN <<>>
    ELSE (IF IsNested(Head(fields), t)
          THEN FlatVals(Head(fields).type.sub, Head(vals), t)
          ELSE <<Head(vals)>>) \o FlatVals(Tail(fields), Tail(vals), t)

---------------------------------------------------------------------------
(* C1 *)

\* C1: a required field that holds the zero value after its bind was
\* attempted -- its key is absent from the normalized keymap, or present with
\* values that convert to the zero value -- makes BindToPtr fail with
\* ErrRequired naming the field's lookup key.
C1_RequiredZeroFails ==
    dest.called =>
        \A i \in DOMAIN TopFields :
            LET f == TopFields[i]
                key == inputFieldNameOf(f, tag)
            IN  ( /\ f.binding = "required"
                  /\ ~skipped(f, tag) /\ ~recursive(f, tag)
                  /\ ~IsUnmarshalerField(f)
                  /\ Reached(i)
                  /\ isZeroOfUnderlyingType(f.type, dest.after[i])
                  /\ \/ key \notin DOMAIN dest.keys
                     \/ /\ key \in DOMAIN dest.keys
                        /\ Len(dest.keys[key]) > 0
                        /\ DecodeOf(f, dest.keys[key], dest.before[i]).err = NoErr )
                => dest.err = ErrRequired(key)

---------------------------------------------------------------------------
(* C2 *)

\* C2: an untagged field is populated from the values of every request key
\* whose normal form (no "_", no "-", lower case) equals the normal form of
\* the field's name.
C2_NormalizedNameMatches ==
    (first.called /\ first.err = NoErr) =>
        \A i \in DOMAIN TopFields : \A k \in DOMAIN data :
            LET f == TopFields[i]
            IN  ( /\ f.settable /\ f.tags[tag] = <<>>
                  /\ ~IsNested(f, tag)
                  /\ NormalizeKey(k) = NormalizeKey(f.name)
                  /\ OnlyKeyOfClass(k)
                  /\ Len(data[k]) > 0
                  /\ DecodeOf(f, data[k], Zero(f.type)).err = NoErr )
                => first.ptr[1][i] = DecodeOf(f, data[k], Zero(f.type)).val

---------------------------------------------------------------------------
(* C3 *)

\* C3: a field with a source tag t other than "-" holds, after Bind, the
\* converted value of the request entry named t.
C3_TagNamesRequestEntry ==
    (first.called /\ first.err = NoErr) =>
        \A i \in DOMAIN TopFields :
            LET f == TopFields[i]
                t == f.tags[tag]
            IN  ( /\ f.settable /\ t # <<>> /\ t # <<"-">>
                  /\ t \in DOMAIN data
                  /\ OnlyKeyOfClass(t)
                  /\ Len(data[t]) > 0
                  /\ DecodeOf(f, data[t], Zero(f.type)).err = NoErr )
                => first.ptr[1][i] = DecodeOf(f, data[t], Zero(f.type)).val

---------------------------------------------------------------------------
(* C4 *)

\* C4: a field tagged "-" under the active tag name is never written, and
\* the call ends as it would for the struct without that field: with the same
\* error (so never a required-field error of that field) and the same values
\* in the other fields.
C4_DashFieldUntouched ==
    (dest.called /\ typ.kind = "struct") =>
        \A i \in DOMAIN TopFields :
            TopFields[i].tags[tag] = <<"-">> =>
                /\ dest.after[i] = dest.before[i]
                /\ With(BindToPtr(Struct(Without(TopFields, i)),
                                  Without(dest.before, i), dest.keys, tag,
                                  AnyOrder(DOMAIN dest.keys)), LAMBDA r :
                     r.err = dest.err /\ r.inst = Without(dest.after, i))

\* a required field tagged "-" stays zero although the request holds its
\* lower-cased name and the key "-", both with a value
C4_Witness ==
    /\ dest.called /\ target = 4 /\ tag = "form"
    /\ TopFields[1].tags[tag] = <<"-">> /\ TopFields[1].binding = "required"
    /\ DOMAIN data = {<<"a", "b">>, <<"-">>}
    /\ data[<<"a", "b">>] = <<<<"1">>>> /\ data[<<"-">>] = <<<<"1">>>>
    /\ dest.after[1] = <<>>
    /\ dest.err = NoErr

---------------------------------------------------------------------------
(* C5 *)

\* C5: two calls of Bind with the same type, keymap and tag name return
\* equal results: equal structs, or the same error.
C5_BindDeterministic ==
    (first.called /\ second.called) => first = second

---------------------------------------------------------------------------
(* C7 *)

\* C7: binding a struct with untagged nested structs (no BindUnmarshaler)
\* gives every inner field the value, and the call the error, that binding
\* the struct with the inner fields declared in place of each nested struct
\* gives, at every depth.
C7_NestedAsFlat ==
    (dest.called /\ typ.kind = "struct") =>
        With(BindToPtr(Struct(FlatFields(TopFields, tag)),
                       FlatVals(TopFields, dest.before, tag), dest.keys, tag,
                       AnyOrder(DOMAIN dest.keys)), LAMBDA r :
          /\ r.err = dest.err
          /\ r.inst = FlatVals(TopFields, dest.after, tag))

\* struct { Ab int8; In Inner }: Inner.C and, one level deeper, Leaf.Ab are
\* both bound, from "c" and "ab"
C7_Witness ==
    /\ dest.called /\ target = 5
    /\ dest.before = Zero(typ)
    /\ dest.err = NoErr
    /\ dest.after[1] = 1
    /\ dest.after[2][1] = <<"1">>
    /\ dest.after[2][2][1] = <<1>>

---------------------------------------------------------------------------
(* C8 *)

\* C8: a field whose lookup key is present with no values is left as it
\* was, and the call does not crash.
C8_EmptyValuesNoCrash ==
    dest.called =>
        \A i \in DOMAIN TopFields :
            LET f == TopFields[i]
                key == inputFieldNameOf(f, tag)
            IN  ( /\ ~skipped(f, tag) /\ ~recursive(f, tag)
                  /\ Reached(i)
                  /\ key \in DOMAIN dest.keys
                  /\ dest.keys[key] = <<>> )
                => (dest.err # Panic /\ dest.after[i] = dest.before[i])

---------------------------------------------------------------------------
(* C9 *)

\* C9: a required field that is a BindUnmarshaler (or a pointer to one),
\* whose UnmarshalParam returned no error and which ends at its zero value,
\* makes BindToPtr fail with ErrRequired.
C9_RequiredAfterUnmarshal ==
    dest.called =>
        \A i \in DOMAIN TopFields :
            LET f == TopFields[i]
                key == inputFieldNameOf(f, tag)
            IN  ( /\ f.binding = "required"
                  /\ ~skipped(f, tag)
                  /\ IsUnmarshalerField(f)
                  /\ Reached(i)
                  /\ key \in DOMAIN dest.keys
                  /\ Len(dest.keys[key]) > 0
                  /\ DecodeOf(f, dest.keys[key], dest.before[i]).err = NoErr
                  /\ isZeroOfUnderlyingType(f.type, dest.after[i]) )
                => dest.err = ErrRequired(key)

---------------------------------------------------------------------------
(* C6 *)

DecimalDigits == <<"0", "1", "2", "3", "4", "5", "6", "7", "8", "9">>

IsDigit(c) == \E n \in DOMAIN DecimalDigits : DecimalDigits[n] = c

\* the number a string of decimal digits writes
RECURSIVE RefNumber(_)
RefNumber(digits) ==
    IF digits = <<>> THEN 0
    ELSE 10 * RefNumber(SubSeq(digits, 1, Len(digits) - 1))
         + (CHOOSE n \in DOMAIN DecimalDigits :
               DecimalDigits[n] = digits[Len(digits)]) - 1

\* the digits of a base-10 literal of the kind: a signed kind takes one
\* leading sign, an unsigned kind none
RefDigits(kind, s) ==
    IF kind \in IntKinds /\ s # <<>> /\ s[1] \in {"+", "-"} THEN Tail(s) ELSE s

RefIsLiteral(kind, s) ==
    /\ RefDigits(kind, s) # <<>>
    /\ \A i \in DOMAIN RefDigits(kind, s) : IsDigit(RefDigits(kind, s)[i])

RefValue(kind, s) ==
    IF s[1] = "-" THEN -RefNumber(RefDigits(kind, s))
    ELSE RefNumber(RefDigits(kind, s))

RefBits(kind) == IF kind \in {"int8", "uint8"} THEN 8 ELSE 16

RefInRange(kind, n) ==
    IF kind \in IntKinds
    THEN -(2 ^ (RefBits(kind) - 1)) <= n /\ n <= 2 ^ (RefBits(kind) - 1) - 1
    ELSE 0 <= n /\ n <= 2 ^ RefBits(kind) - 1

\* what the string is to convert to: a value, or nothing
RefConvert(kind, s) ==
    IF s = <<>>
    THEN [ok |-> TRUE, val |-> IF kind = "bool" THEN FALSE ELSE 0]
    ELSE IF kind = "bool"
    THEN [ok |-> s \in TrueLiterals \cup FalseLiterals, val |-> s \in TrueLiterals]
    ELSE IF RefIsLiteral(kind, s) /\ RefInRange(kind, RefValue(kind, s))
    THEN [ok |-> TRUE, val |-> RefValue(kind, s)]
    ELSE [ok |-> FALSE, val |-> 0]

\* C6: for every string and every integer, unsigned and boolean kind, as a
\* field or as a slice element: the empty string gives 0 (false) and no error;
\* a base-10 literal in the range of the kind's width (a boolean literal)
\* gives its value and no error; every other string gives a conversion error
\* and leaves the field as it was, neither zeroed nor wrapped.
C6_ConversionMatchesReference ==
    conv.called =>
        LET ref == RefConvert(conv.kind, conv.s)
        IN  IF ref.ok
            THEN /\ conv.err = NoErr
                 /\ conv.after = IF conv.inSlice THEN <<ref.val>> ELSE ref.val
            ELSE /\ conv.err.kind \in {"ErrSyntax", "ErrRange"}
                 /\ conv.after = conv.before

\* "128" does not fit an int8: a range error, and the field keeps its 7
C6_Witness ==
    /\ conv.called /\ ~conv.inSlice
    /\ conv.kind = "int8" /\ conv.s = <<"1", "2", "8">>
    /\ conv.err.kind = "ErrRange"
    /\ conv.before = 7 /\ conv.after = 7

---------------------------------------------------------------------------
(* C10 *)

\* some value of the list does not convert into an element of the slice
SomeElementFails(f, inputValue) ==
    \E j \in DOMAIN inputValue :
        setWithProperType(f.type.sub[1], inputValue[j],
                          Zero(f.type.sub[1])).err # NoErr

\* a slice of scalars
IsScalarSlice(f) == f.type.kind = "slice" /\ ~f.type.custom

\* a pointer to a scalar that is no BindUnmarshaler
IsScalarPtr(f) ==
    /\ f.type.kind = "ptr"
    /\ ~f.type.sub[1].custom
    /\ f.type.sub[1].kind \notin {"struct", "slice", "ptr"}

\* (a) of C10: a slice field one of whose values fails to convert keeps the
\* value it had
SliceKeptOnFailure ==
    \A i \in DOMAIN TopFields :
        LET f == TopFields[i]
            key == inputFieldNameOf(f, tag)
        IN  ( /\ IsScalarSlice(f) /\ ~skipped(f, tag)
              /\ key \in DOMAIN dest.keys
              /\ SomeElementFails(f, dest.keys[key]) )
            => dest.after[i] = dest.before[i]

\* C10 as claimed: a failed conversion does not mutate its field: (a) a slice
\* field keeps its value when an element fails to convert; (b) a nil
\* pointer-to-scalar field is still nil after a call in which its key is
\* absent or its value fails to convert.
C10_FailedConversionKeepsField ==
    dest.called =>
        /\ SliceKeptOnFailure
        /\ \A i \in DOMAIN TopFields :
               LET f == TopFields[i]
                   key == inputFieldNameOf(f, tag)
               IN  ( /\ IsScalarPtr(f) /\ ~skipped(f, tag)
                     /\ dest.before[i] = <<>>
                     /\ \/ key \notin DOMAIN dest.keys
                        \/ /\ Len(dest.keys[key]) > 0
                           /\ setWithProperType(f.type, dest.keys[key][1],
                                                <<>>).err # NoErr )
                   => dest.after[i] = <<>>

\* C10 as amended: (a) as claimed; (b) a nil pointer-to-scalar field is still
\* nil when its key is absent, and when the walk reaches it with its key
\* present and a first value that fails to convert, it has been allocated
\* and points to a zero value.
C10_PointerAllocatedBeforeDecode ==
    dest.called =>
        /\ SliceKeptOnFailure
        /\ \A i \in DOMAIN TopFields :
               LET f == TopFields[i]
                   key == inputFieldNameOf(f, tag)
               IN  ( /\ IsScalarPtr(f) /\ ~skipped(f, tag)
                     /\ dest.before[i] = <<>> )
                   => /\ key \notin DOMAIN dest.keys => dest.after[i] = <<>>
                      /\ ( /\ key \in DOMAIN dest.keys
                           /\ Reached(i)
                           /\ Len(dest.keys[key]) > 0
                           /\ setWithProperType(f.type, dest.keys[key][1],
                                                <<>>).err # NoErr )
                         => dest.after[i] = <<Zero(f.type.sub[1])>>

\* struct { Ab []int8; C *int8 } holding [7] and nil: "x" for C fails to
\* convert and leaves C pointing to 0
C10_Witness ==
    /\ dest.called /\ target = 6
    /\ data = [k \in {<<"c">>} |-> <<<<"x">>>>]
    /\ dest.before[2] = <<>>
    /\ dest.err = ErrSyntax(<<"x">>)
    /\ dest.after[2] = <<0>>

=============================================================================
